---- MODULE Spec2Model ----
(***************************************************************************)
(* Interceptor chaining of hotelReservation/tracing/interceptors.go:        *)
(* ChainUnaryServerInterceptors and ChainUnaryClientInterceptors, and the  *)
(* size-tagging interceptors SizeTaggingUnaryServerInterceptor and         *)
(* SizeTaggingUnaryClientInterceptor of the same file.                     *)
(*                                                                         *)
(* A built chain is the closure returned by a builder; it captures the     *)
(* variadic slice `interceptors`.  Every invocation of that closure folds  *)
(* the slice, last to first, into a list of per-call closures and then     *)
(* calls the outermost one.  The model keeps, per call, the Go locals of   *)
(* the composed interceptor (ctx, req, info/method..., handler/invoker,    *)
(* i, chainedHandler/chainedInvoker), the closures the loop allocated, the *)
(* call stack, the value being returned, and an ordered event log that the *)
(* interceptors and the terminal append to.                                *)
(***************************************************************************)
EXTENDS Integers, Sequences, FiniteSets, TLC

VARIABLES kind, interceptors, call

vars == <<kind, interceptors, call>>

(* ---------------------------------------------------------------------- *)
(* Bounds                                                                  *)
(* ---------------------------------------------------------------------- *)
MaxChain == 3
MaxCalls == 2
MaxConcChain == 2
MaxRepeat == 2

Calls == 1 .. MaxCalls

(* ---------------------------------------------------------------------- *)
(* Values                                                                  *)
(* ---------------------------------------------------------------------- *)
Nil == <<"nil">>
NA == <<"n/a">>

Requests == {"r1", "r2"}
\* The request the c-th of several calls carries.
RequestOf(c) == "r" \o ToString(c)
Handlers == {"H1", "H2"}
Outcomes == {"ok", "error"}

\* What the composed server interceptor is invoked with (lines 15-17).
ServerArgs(r) ==
  [ctx |-> <<"ctx", r>>, req |-> <<"req", r>>, info |-> <<"info", r>>,
   method |-> NA, reply |-> NA, cc |-> NA, opts |-> NA]

\* What the composed client interceptor is invoked with (lines 70-75).
ClientArgs(r) ==
  [ctx |-> <<"ctx", r>>, req |-> <<"req", r>>, info |-> NA,
   method |-> <<"method", r>>, reply |-> <<"reply", r>>,
   cc |-> <<"cc", r>>, opts |-> <<"opts", r>>]

NoArgs ==
  [ctx |-> Nil, req |-> Nil, info |-> Nil,
   method |-> Nil, reply |-> Nil, cc |-> Nil, opts |-> Nil]

\* A returned (resp, err) pair; the client shapes return the error only.
Value(resp, err) == [resp |-> resp, err |-> err]
NoRet == Value(<<"none">>, <<"none">>)

(* ---------------------------------------------------------------------- *)
(* Interceptors handed to the builders.  An interceptor is a function      *)
(* value; its behaviour is what it does with its continuation.             *)
(*   pass  : calls the continuation once with what it received and         *)
(*           returns the continuation's result                             *)
(*   short : returns a response of its own without calling it              *)
(*   fail  : calls it once, then returns an error of its own               *)
(*   swap  : calls it once with replaced arguments, returns its result     *)
(*   replace : as swap, and the client one replaces the reply slot too     *)
(*   repeat : calls it several times with what it received and returns     *)
(*           the result of the last call                                   *)
(*   tag   : the size-tagging interceptor of this file                     *)
(* ---------------------------------------------------------------------- *)
Interceptor(name, beh) == [name |-> name, beh |-> beh]

Pool ==
  { Interceptor("A", "pass"), Interceptor("B", "pass"),
    Interceptor("C", "pass"), Interceptor("S", "short"),
    Interceptor("F", "fail"), Interceptor("W", "swap") }

SmallPool == { Interceptor("A", "pass"), Interceptor("B", "pass"),
               Interceptor("S", "short") }

SeqsUpTo(S, n) == UNION { [1 .. k -> S] : k \in 0 .. n }

\* The sequences that name no interceptor twice.
DistinctSeqsUpTo(S, n) ==
  { q \in SeqsUpTo(S, n) : \A a, b \in 1 .. Len(q) : a # b => q[a] # q[b] }

(* ---------------------------------------------------------------------- *)
(* Per-call state of the composed interceptor                              *)
(* ---------------------------------------------------------------------- *)
\* A function value: the terminal handed to the call, or a closure the fold
\* allocated (k-th allocation of this call).
HandlerRef(h) == [t |-> "handler", h |-> h, k |-> 0]
ClosureRef(k) == [t |-> "closure", h |-> "", k |-> k]
NoRef == [t |-> "none", h |-> "", k |-> 0]

IdleCall ==
  [pc |-> "idle", args |-> NoArgs, handler |-> NoRef, i |-> 0,
   chained |-> NoRef, closures |-> <<>>, stack |-> <<>>, ret |-> NoRet,
   written |-> {}, log |-> <<>>, result |-> NoRet]

Init ==
  /\ kind = "none"
  /\ interceptors = <<>>
  /\ call = [c \in Calls |-> IdleCall]

(* ---------------------------------------------------------------------- *)
(* The builders: each returns a closure over `interceptors`; `chains` is    *)
(* the set of argument lists the builder may be called with.               *)
(* ---------------------------------------------------------------------- *)
ChainUnaryServerInterceptors(chains) ==
  /\ kind = "none"
  /\ kind' = "server"
  /\ \E chain \in chains : interceptors' = chain
  /\ UNCHANGED call

ChainUnaryClientInterceptors(chains) ==
  /\ kind = "none"
  /\ kind' = "client"
  /\ \E chain \in chains : interceptors' = chain
  /\ UNCHANGED call

(* ---------------------------------------------------------------------- *)
(* Stack frames and log entries                                            *)
(* ---------------------------------------------------------------------- *)
\* `calls` counts the calls of `next` the activation has made.
Frame(ic, a, next) ==
  [ic |-> ic, args |-> a, next |-> next, st |-> "entered", calls |-> 0]

Before(f) == [ev |-> "before", who |-> f.ic.name, args |-> f.args,
              next |-> f.next, ret |-> NoRet]
After(f, v) == [ev |-> "after", who |-> f.ic.name, args |-> f.args,
                next |-> f.next, ret |-> v]

\* Entering a function: push its frame; it appends its entry event.
Enter(cs, f) ==
  [cs EXCEPT !.stack = Append(@, f),
             !.log = IF f.ic.beh = "terminal" THEN @ ELSE Append(@, Before(f))]

Top(cs) == cs.stack[Len(cs.stack)]
Pop(st) == SubSeq(st, 1, Len(st) - 1)

(* ---------------------------------------------------------------------- *)
(* Server chain: the closure returned at line 14                           *)
(* ---------------------------------------------------------------------- *)
\* Variant: the terminal is fixed once, not taken from the call.
ServerInitialChainedFixed(handler) == HandlerRef("H1")

\* line 21: chainedHandler := handler
ServerInitialChained(handler) == handler

\* line 22: i := len(interceptors) - 1
ServerLoopStart(chain) == Len(chain) - 1

\* line 22: i >= 0
ServerLoopCond(i) == i >= 0

\* Variant: the fold walks the slice from the wrong end.
ServerCapturedReversed(chain, i) == chain[Len(chain) - i]

\* line 23: interceptor := interceptors[i]   (i is the Go index, 0-based)
ServerCaptured(chain, i) == chain[i + 1]

\* line 24: next := chainedHandler
ServerNext(chainedHandler) == chainedHandler

\* Variant: the closure does not carry the call's info.
ServerClosureNoInfo(interceptor, info, next) ==
  [interceptor |-> interceptor, info |-> Nil, next |-> next]

\* lines 25-27: the closure value; it captures interceptor, info and next.
ServerClosure(interceptor, info, next) ==
  [interceptor |-> interceptor, info |-> info, next |-> next]

\* Variant: the closure keeps the error and drops the response.
ServerClosureResultErrOnly(v) == Value(Nil, v.err)

\* line 26: the closure returns what its interceptor returned.
ServerClosureResult(v) == v

\* A grpc.UnaryHandler is applied to (ctx, req) only.
HandlerArgs(ctx, req) ==
  [ctx |-> ctx, req |-> req, info |-> NA,
   method |-> NA, reply |-> NA, cc |-> NA, opts |-> NA]

\* Variant: the closures live in one place shared by all calls (here: where
\* the first call put them) instead of in the call's own frame.
ServerApplyShared(cs, fn, ctx, req) ==
  IF fn.t = "handler"
    THEN Frame(Interceptor(fn.h, "terminal"), HandlerArgs(ctx, req), NoRef)
    ELSE LET shared == IF fn.k \in DOMAIN call[1].closures
                         THEN call[1].closures ELSE cs.closures
             cl == shared[fn.k]
         IN  Frame(cl.interceptor,
                   [HandlerArgs(ctx, req) EXCEPT !.info = cl.info], cl.next)

\* Applying a grpc.UnaryHandler value to (ctx, req): the terminal itself, or
\* the body of a closure, line 26: return interceptor(ctx, req, info, next).
ServerApply(cs, fn, ctx, req) ==
  IF fn.t = "handler"
    THEN Frame(Interceptor(fn.h, "terminal"), HandlerArgs(ctx, req), NoRef)
    ELSE LET cl == cs.closures[fn.k]
         IN  Frame(cl.interceptor,
                   [HandlerArgs(ctx, req) EXCEPT !.info = cl.info], cl.next)

\* lines 14-21: the composed interceptor is invoked.
ServerInvoke(c, r, h) ==
  /\ kind = "server"
  /\ call[c].pc = "idle"
  /\ call' = [call EXCEPT ![c] =
       [@ EXCEPT !.pc = "loop",
                 !.args = ServerArgs(r),
                 !.handler = HandlerRef(h),
                 !.chained = ServerInitialChained(HandlerRef(h)),
                 !.i = ServerLoopStart(interceptors)]]
  /\ UNCHANGED <<kind, interceptors>>

\* Variant: the fold consumes the captured slice while it wraps it.
ServerLoopConsuming(c) ==
  LET cs == call[c] IN
  /\ kind = "server"
  /\ cs.pc = "loop"
  /\ ServerLoopCond(cs.i)
  /\ call' = [call EXCEPT ![c] =
       [@ EXCEPT !.closures = Append(@, ServerClosure(
                     ServerCaptured(interceptors, cs.i), cs.args.info,
                     ServerNext(cs.chained))),
                 !.chained = ClosureRef(Len(cs.closures) + 1),
                 !.i = cs.i - 1]]
  /\ interceptors' = SubSeq(interceptors, 1, cs.i)
  /\ UNCHANGED kind

\* lines 22-28: one iteration of the fold.
ServerLoop(c) ==
  LET cs == call[c] IN
  /\ kind = "server"
  /\ cs.pc = "loop"
  /\ ServerLoopCond(cs.i)
  /\ call' = [call EXCEPT ![c] =
       [@ EXCEPT !.closures = Append(@, ServerClosure(
                     ServerCaptured(interceptors, cs.i), cs.args.info,
                     ServerNext(cs.chained))),
                 !.chained = ClosureRef(Len(cs.closures) + 1),
                 !.i = cs.i - 1]]
  /\ UNCHANGED <<kind, interceptors>>

\* line 29: return chainedHandler(ctx, req)  -- the call
ServerCall(c) ==
  LET cs == call[c] IN
  /\ kind = "server"
  /\ cs.pc = "loop"
  /\ ~ServerLoopCond(cs.i)
  /\ call' = [call EXCEPT ![c] =
       Enter([cs EXCEPT !.pc = "run"],
             ServerApply(cs, cs.chained, cs.args.ctx, cs.args.req))]
  /\ UNCHANGED <<kind, interceptors>>

(* ---------------------------------------------------------------------- *)
(* Client chain: the closure returned at line 69                           *)
(* ---------------------------------------------------------------------- *)
\* Variant: the terminal is fixed once, not taken from the call.
ClientInitialChainedFixed(invoker) == HandlerRef("H1")

\* line 77: chainedInvoker := invoker
ClientInitialChained(invoker) == invoker

\* line 78: i := len(interceptors) - 1
ClientLoopStart(chain) == Len(chain) - 1

\* Variant: the client fold stops one interceptor early.
ClientLoopCondSkipFirst(i) == i > 0

\* line 78: i >= 0
ClientLoopCond(i) == i >= 0

\* Variant: every closure sees the interceptor of the last iteration.
ClientCapturedLast(chain, i) == chain[1]

\* line 79: interceptor := interceptors[i]
ClientCaptured(chain, i) == chain[i + 1]

\* line 80: next := chainedInvoker
ClientNext(chainedInvoker) == chainedInvoker

\* lines 81-83: the closure value; it captures interceptor and next only.
ClientClosure(interceptor, next) ==
  [interceptor |-> interceptor, info |-> NA, next |-> next]

\* Variant: the closure swallows the error.
ClientClosureResultSwallowed(v) == Value(v.resp, Nil)

\* line 82: the closure returns what its interceptor returned.
ClientClosureResult(v) == v

\* A grpc.UnaryInvoker is applied to (ctx, method, req, reply, cc, opts...).
InvokerArgs(ctx, method, req, reply, cc, opts) ==
  [ctx |-> ctx, req |-> req, info |-> NA,
   method |-> method, reply |-> reply, cc |-> cc, opts |-> opts]

\* Variant: the closure hands on the reply slot of the outer call, not the
\* one it was called with.
ClientApplyOuterReply(cs, fn, ctx, method, req, reply, cc, opts) ==
  IF fn.t = "handler"
    THEN Frame(Interceptor(fn.h, "terminal"),
               InvokerArgs(ctx, method, req, reply, cc, opts), NoRef)
    ELSE LET cl == cs.closures[fn.k]
         IN  Frame(cl.interceptor,
                   InvokerArgs(ctx, method, req, cs.args.reply, cc, opts),
                   cl.next)

\* Applying a grpc.UnaryInvoker value: the terminal itself, or the body of a
\* closure, line 82: return interceptor(ctx, method, req, reply, cc, next, opts...).
ClientApply(cs, fn, ctx, method, req, reply, cc, opts) ==
  IF fn.t = "handler"
    THEN Frame(Interceptor(fn.h, "terminal"),
               InvokerArgs(ctx, method, req, reply, cc, opts), NoRef)
    ELSE LET cl == cs.closures[fn.k]
         IN  Frame(cl.interceptor,
                   InvokerArgs(ctx, method, req, reply, cc, opts), cl.next)

\* lines 69-77: the composed interceptor is invoked.
ClientInvoke(c, r, h) ==
  /\ kind = "client"
  /\ call[c].pc = "idle"
  /\ call' = [call EXCEPT ![c] =
       [@ EXCEPT !.pc = "loop",
                 !.args = ClientArgs(r),
                 !.handler = HandlerRef(h),
                 !.chained = ClientInitialChained(HandlerRef(h)),
                 !.i = ClientLoopStart(interceptors)]]
  /\ UNCHANGED <<kind, interceptors>>

\* lines 78-84: one iteration of the fold.
ClientLoop(c) ==
  LET cs == call[c] IN
  /\ kind = "client"
  /\ cs.pc = "loop"
  /\ ClientLoopCond(cs.i)
  /\ call' = [call EXCEPT ![c] =
       [@ EXCEPT !.closures = Append(@, ClientClosure(
                     ClientCaptured(interceptors, cs.i),
                     ClientNext(cs.chained))),
                 !.chained = ClosureRef(Len(cs.closures) + 1),
                 !.i = cs.i - 1]]
  /\ UNCHANGED <<kind, interceptors>>

\* line 85: return chainedInvoker(ctx, method, req, reply, cc, opts...)
ClientCall(c) ==
  LET cs == call[c]
      a == cs.args
  IN
  /\ kind = "client"
  /\ cs.pc = "loop"
  /\ ~ClientLoopCond(cs.i)
  /\ call' = [call EXCEPT ![c] =
       Enter([cs EXCEPT !.pc = "run"],
             ClientApply(cs, cs.chained, a.ctx, a.method, a.req, a.reply,
                         a.cc, a.opts))]
  /\ UNCHANGED <<kind, interceptors>>

(* ---------------------------------------------------------------------- *)
(* The functions the chain calls: the interceptors and the terminal        *)
(* ---------------------------------------------------------------------- *)
\* What a "swap" interceptor hands to its continuation.  A server
\* continuation takes (ctx, req); a client one also takes method, cc, opts.
SwapArgs(a) ==
  [a EXCEPT !.ctx = <<"ctx", "W">>, !.req = <<"req", "W">>,
            !.method = IF @ = NA THEN NA ELSE <<"method", "W">>,
            !.cc = IF @ = NA THEN NA ELSE <<"cc", "W">>,
            !.opts = IF @ = NA THEN NA ELSE <<"opts", "W">>]

\* What a "replace" interceptor hands to its continuation: nothing it was
\* given.  The client one also hands over a reply slot of its own.
ReplaceArgs(a) ==
  [a EXCEPT !.ctx = <<"ctx", "X">>, !.req = <<"req", "X">>,
            !.method = IF @ = NA THEN NA ELSE <<"method", "X">>,
            !.reply = IF @ = NA THEN NA ELSE <<"reply", "X">>,
            !.cc = IF @ = NA THEN NA ELSE <<"cc", "X">>,
            !.opts = IF @ = NA THEN NA ELSE <<"opts", "X">>]

Passed(f) ==
  IF f.ic.beh = "swap" THEN SwapArgs(f.args)
  ELSE IF f.ic.beh = "replace" THEN ReplaceArgs(f.args)
  ELSE f.args

\* A server function returns (resp, err); a client function returns err and
\* delivers the response through the reply slot it was given.
OwnResponse(k, who) ==
  IF k = "server" THEN Value(<<"resp", who>>, Nil) ELSE Value(NA, Nil)
OwnError(k, who) ==
  IF k = "server" THEN Value(Nil, <<"err", who>>) ELSE Value(NA, <<"err", who>>)
Writes(k, f) ==
  IF k = "server" THEN {} ELSE {<<f.args.reply, <<"resp", f.ic.name>>>>}

\* An interceptor returns v to the closure that called it (line 26 / 82), and
\* the closure returns to whoever applied it.
Returned(k, v) ==
  IF k = "server" THEN ServerClosureResult(v) ELSE ClientClosureResult(v)

\* The interceptor on top of the stack calls its continuation `next`.
Proceed(c) ==
  LET cs == call[c]
      f == Top(cs)
      p == Passed(f)
      callee == IF kind = "server"
                  THEN ServerApply(cs, f.next, p.ctx, p.req)
                  ELSE ClientApply(cs, f.next, p.ctx, p.method, p.req,
                                   p.reply, p.cc, p.opts)
      waiting == [cs EXCEPT !.stack[Len(cs.stack)].st = "waiting",
                            !.ret = NoRet]
  IN
  /\ cs.pc = "run"
  /\ cs.stack # <<>>
  /\ f.st = "entered"
  /\ f.ic.beh \in {"pass", "fail", "swap", "replace"}
  /\ call' = [call EXCEPT ![c] = Enter(waiting, callee)]
  /\ UNCHANGED <<kind, interceptors>>

\* The interceptor on top of the stack returns without calling `next`.
ShortCircuit(c) ==
  LET cs == call[c]
      f == Top(cs)
      v == OwnResponse(kind, f.ic.name)
  IN
  /\ cs.pc = "run"
  /\ cs.stack # <<>>
  /\ f.st = "entered"
  /\ f.ic.beh = "short"
  /\ call' = [call EXCEPT ![c] =
       [cs EXCEPT !.stack = Pop(@), !.ret = Returned(kind, v),
                  !.written = @ \cup Writes(kind, f),
                  !.log = Append(@, After(f, v))]]
  /\ UNCHANGED <<kind, interceptors>>

\* The continuation has returned; the interceptor returns in its turn.
Resume(c) ==
  LET cs == call[c]
      f == Top(cs)
      v == IF f.ic.beh = "fail" THEN OwnError(kind, f.ic.name) ELSE cs.ret
  IN
  /\ cs.pc = "run"
  /\ cs.stack # <<>>
  /\ f.ic.beh \in {"pass", "fail", "swap", "replace"}
  /\ f.st = "waiting"
  /\ cs.ret # NoRet
  /\ call' = [call EXCEPT ![c] =
       [cs EXCEPT !.stack = Pop(@), !.ret = Returned(kind, v),
                  !.log = Append(@, After(f, v))]]
  /\ UNCHANGED <<kind, interceptors>>

\* An interceptor that calls its continuation m times in a row (m >= 2).
Repeater(m) == Interceptor("R" \o ToString(m), "repeat")

\* Variant: the interceptor stops after the first call.
TimesOnce(ic) == 1

\* How often a "repeat" interceptor calls its continuation.
Times(ic) == CHOOSE m \in 2 .. MaxRepeat : ic = Repeater(m)

\* A "repeat" interceptor calls `next`: for the first time, or again after the
\* previous call returned.
Repeat(c) ==
  LET cs == call[c]
      f == Top(cs)
      a == f.args
      callee == IF kind = "server"
                  THEN ServerApply(cs, f.next, a.ctx, a.req)
                  ELSE ClientApply(cs, f.next, a.ctx, a.method, a.req,
                                   a.reply, a.cc, a.opts)
      waiting == [cs EXCEPT !.stack[Len(cs.stack)].st = "waiting",
                            !.stack[Len(cs.stack)].calls = @ + 1,
                            !.ret = NoRet]
  IN
  /\ cs.pc = "run"
  /\ cs.stack # <<>>
  /\ f.ic.beh = "repeat"
  /\ f.st = "entered" \/ (f.st = "waiting" /\ cs.ret # NoRet)
  /\ f.calls < Times(f.ic)
  /\ call' = [call EXCEPT ![c] = Enter(waiting, callee)]
  /\ UNCHANGED <<kind, interceptors>>

\* Its last call of `next` has returned; it returns that result.
RepeatReturn(c) ==
  LET cs == call[c]
      f == Top(cs)
  IN
  /\ cs.pc = "run"
  /\ cs.stack # <<>>
  /\ f.ic.beh = "repeat"
  /\ f.st = "waiting"
  /\ cs.ret # NoRet
  /\ f.calls >= Times(f.ic)
  /\ call' = [call EXCEPT ![c] =
       [cs EXCEPT !.stack = Pop(@), !.ret = Returned(kind, cs.ret),
                  !.log = Append(@, After(f, cs.ret))]]
  /\ UNCHANGED <<kind, interceptors>>

\* The terminal handler/invoker runs and returns a response or an error.
Terminal(c, o) ==
  LET cs == call[c]
      f == Top(cs)
      v == IF o = "ok" THEN OwnResponse(kind, f.ic.name)
                       ELSE OwnError(kind, f.ic.name)
  IN
  /\ cs.pc = "run"
  /\ cs.stack # <<>>
  /\ f.st = "entered"
  /\ f.ic.beh = "terminal"
  /\ call' = [call EXCEPT ![c] =
       [cs EXCEPT !.stack = Pop(@), !.ret = v,
                  !.written = @ \cup (IF o = "ok" THEN Writes(kind, f) ELSE {}),
                  !.log = Append(@, [ev |-> "terminal", who |-> f.ic.name,
                                     args |-> f.args, next |-> NoRef,
                                     ret |-> v])]]
  /\ UNCHANGED <<kind, interceptors>>

\* Variant: the composed interceptor returns the error only.
ServerResultErrOnly(v) == Value(Nil, v.err)

\* line 29: what the composed server interceptor returns.
ServerResult(v) == v

\* line 85: what the composed client interceptor returns.
ClientResult(v) == v

\* line 29: return chainedHandler(ctx, req)  -- the return
ServerReturn(c) ==
  LET cs == call[c] IN
  /\ kind = "server"
  /\ cs.pc = "run"
  /\ cs.stack = <<>>
  /\ call' = [call EXCEPT ![c] =
       [cs EXCEPT !.pc = "done", !.result = ServerResult(cs.ret)]]
  /\ UNCHANGED <<kind, interceptors>>

\* line 85: return chainedInvoker(...)  -- the return
ClientReturn(c) ==
  LET cs == call[c] IN
  /\ kind = "client"
  /\ cs.pc = "run"
  /\ cs.stack = <<>>
  /\ call' = [call EXCEPT ![c] =
       [cs EXCEPT !.pc = "done", !.result = ClientResult(cs.ret)]]
  /\ UNCHANGED <<kind, interceptors>>

(* ---------------------------------------------------------------------- *)
(* Size tagging: SizeTaggingUnaryServerInterceptor (lines 34-65) and       *)
(* SizeTaggingUnaryClientInterceptor (lines 90-123).                       *)
(*                                                                         *)
(* In a call that may be tagged, the request r is a record: whether its    *)
(* context carries a span, whether the request message is a proto.Message  *)
(* and of what size, and whether the client's reply object is one.  What   *)
(* the interceptor does to the span and to the logger is appended to the   *)
(* call's log, in the order the code does it.                              *)
(* ---------------------------------------------------------------------- *)
SizeTagging == Interceptor("T", "tag")

RequestKey == "grpc.request.size"
ResponseKey == "grpc.response.size"

\* line 48 / line 60: the server's tag value for "size unavailable"
ServerUnknownSize == -1

\* line 106 / line 118: the client's tag value for "size unavailable"
ClientUnknownSize == "unknown"

\* A tag value is an int or a string (SetTag takes interface{}).
IntVal(n) == [type |-> "int", int |-> n, str |-> ""]
StrVal(t) == [type |-> "string", int |-> 0, str |-> t]

PayloadSizes == {0, 42}

\* The requests of a call through the client interceptor.
ClientSizeRequests ==
  { [span |-> sp, proto |-> TRUE, size |-> n, reply |-> q] :
      sp \in BOOLEAN, n \in PayloadSizes, q \in BOOLEAN }
  \cup { [span |-> sp, proto |-> FALSE, size |-> 0, reply |-> q] :
      sp \in BOOLEAN, q \in BOOLEAN }

\* The requests of a call through the server interceptor (no reply object).
ServerSizeRequests == { r \in ClientSizeRequests : r.reply }

\* Who returns a response that is a proto.Message (server), and its size;
\* in the client the response is what was stored into the reply object.
ProtoResponders == {"H1", "S"}
ResponseSize(who) == IF who = "H1" THEN 17 ELSE IF who = "H2" THEN 5 ELSE 0

\* Variant: the span is used without the nil check.
HasSpanUnchecked(ctx) == TRUE

\* line 40 / line 98: opentracing.SpanFromContext(ctx) != nil
HasSpan(ctx) == ctx[1] = "ctx" /\ ctx[2].span

\* lines 42, 54: req.(proto.Message), resp.(proto.Message); a nil interface
\* fails the assertion.  lines 100, 112: the same for req and reply.
IsProtoMessage(msg) ==
  IF msg[1] = "req" THEN msg[2].proto
  ELSE IF msg[1] = "resp" THEN msg[2] \in ProtoResponders
  ELSE IF msg[1] = "reply" THEN msg[2].reply
  ELSE FALSE

\* What the reply object holds: the response stored into it, if any.
Stored(cs, reply) ==
  IF \E w \in cs.written : w[1] = reply
    THEN (CHOOSE w \in cs.written : w[1] = reply)[2]
    ELSE Nil

\* lines 43, 55, 101, 113: proto.Size(m).  For a reply object the size is
\* that of what it holds (an empty message has size 0).
ProtoSize(cs, msg) ==
  IF msg[1] = "req" THEN msg[2].size
  ELSE IF msg[1] = "resp" THEN ResponseSize(msg[2])
  ELSE IF Stored(cs, msg) = Nil THEN 0
  ELSE ResponseSize(Stored(cs, msg)[2])

\* span.SetTag(key, value)
SetTag(key, val) ==
  [ev |-> "tag", who |-> key, args |-> NoArgs, next |-> NoRef,
   ret |-> NoRet, val |-> val, method |-> NA]

\* log.Info().Msgf / log.Warn().Msgf: which payload, the method named, and
\* the size printed (info lines only).
LogLine(level, key, method, val) ==
  [ev |-> level, who |-> key, args |-> NoArgs, next |-> NoRef,
   ret |-> NoRet, val |-> val, method |-> method]

\* lines 42-49 and 54-61: tag and log one payload, server flavour.
ServerTagging(cs, key, msg, method) ==
  IF IsProtoMessage(msg)
    THEN << SetTag(key, IntVal(ProtoSize(cs, msg))),
            LogLine("info", key, method, IntVal(ProtoSize(cs, msg))) >>
    ELSE << LogLine("warn", key, method, IntVal(0)),
            SetTag(key, IntVal(ServerUnknownSize)) >>

\* Variant: the client uses the server's sentinel.
ClientTaggingIntSentinel(cs, key, msg, method) ==
  IF IsProtoMessage(msg)
    THEN << SetTag(key, IntVal(ProtoSize(cs, msg))),
            LogLine("info", key, method, IntVal(ProtoSize(cs, msg))) >>
    ELSE << LogLine("warn", key, method, IntVal(0)),
            SetTag(key, IntVal(ServerUnknownSize)) >>

\* lines 100-107 and 112-119: tag and log one payload, client flavour.
ClientTagging(cs, key, msg, method) ==
  IF IsProtoMessage(msg)
    THEN << SetTag(key, IntVal(ProtoSize(cs, msg))),
            LogLine("info", key, method, IntVal(ProtoSize(cs, msg))) >>
    ELSE << LogLine("warn", key, method, IntVal(0)),
            SetTag(key, StrVal(ClientUnknownSize)) >>

\* Variant: the request size is written under the response key.
ServerRequestTaggingWrongKey(cs, f) ==
  IF HasSpan(f.args.ctx)
    THEN ServerTagging(cs, ResponseKey, f.args.req, f.args.info)
    ELSE <<>>

\* lines 40-50: what the server interceptor does before calling handler.
ServerRequestTagging(cs, f) ==
  IF HasSpan(f.args.ctx)
    THEN ServerTagging(cs, RequestKey, f.args.req, f.args.info)
    ELSE <<>>

\* Variant: the response is tagged whether or not the handler failed.
ServerResponseTaggingAlways(cs, f, v) ==
  IF HasSpan(f.args.ctx)
    THEN ServerTagging(cs, ResponseKey, v.resp, f.args.info)
    ELSE <<>>

\* lines 52-63: what it does after handler returned (resp, err).
ServerResponseTagging(cs, f, v) ==
  IF HasSpan(f.args.ctx) /\ v.err = Nil
    THEN ServerTagging(cs, ResponseKey, v.resp, f.args.info)
    ELSE <<>>

\* lines 98-108: what the client interceptor does before calling invoker.
ClientRequestTagging(cs, f) ==
  IF HasSpan(f.args.ctx)
    THEN ClientTagging(cs, RequestKey, f.args.req, f.args.method)
    ELSE <<>>

\* Variant: the response tag is computed from the request.
ClientResponseTaggingOfRequest(cs, f, v) ==
  IF HasSpan(f.args.ctx) /\ v.err = Nil
    THEN ClientTagging(cs, ResponseKey, f.args.req, f.args.method)
    ELSE <<>>

\* lines 110-121: what it does after invoker returned err.
ClientResponseTagging(cs, f, v) ==
  IF HasSpan(f.args.ctx) /\ v.err = Nil
    THEN ClientTagging(cs, ResponseKey, f.args.reply, f.args.method)
    ELSE <<>>

\* Variant: a response that could not be sized is not returned.
ServerTaggingResultSizedOnly(v) ==
  IF IsProtoMessage(v.resp) THEN v ELSE Value(Nil, v.err)

\* line 64: return resp, err
ServerTaggingResult(v) == v

\* line 122: return err
ClientTaggingResult(v) == v

\* lines 40-50: span lookup and request tagging.
SizeTaggingServerRequest(c) ==
  LET cs == call[c]
      f == Top(cs)
  IN
  /\ kind = "server"
  /\ cs.pc = "run"
  /\ cs.stack # <<>>
  /\ f.ic.beh = "tag"
  /\ f.st = "entered"
  /\ call' = [call EXCEPT ![c] =
       [cs EXCEPT !.stack[Len(cs.stack)].st = "tagged",
                  !.log = @ \o ServerRequestTagging(cs, f)]]
  /\ UNCHANGED <<kind, interceptors>>

\* line 51: resp, err := handler(ctx, req)  -- the call
SizeTaggingServerHandler(c) ==
  LET cs == call[c]
      f == Top(cs)
      waiting == [cs EXCEPT !.stack[Len(cs.stack)].st = "waiting",
                            !.ret = NoRet]
  IN
  /\ kind = "server"
  /\ cs.pc = "run"
  /\ cs.stack # <<>>
  /\ f.ic.beh = "tag"
  /\ f.st = "tagged"
  /\ call' = [call EXCEPT ![c] =
       Enter(waiting, ServerApply(cs, f.next, f.args.ctx, f.args.req))]
  /\ UNCHANGED <<kind, interceptors>>

\* lines 51-64: handler has returned; response tagging and return.
SizeTaggingServerResponse(c) ==
  LET cs == call[c]
      f == Top(cs)
      v == ServerTaggingResult(cs.ret)
  IN
  /\ kind = "server"
  /\ cs.pc = "run"
  /\ cs.stack # <<>>
  /\ f.ic.beh = "tag"
  /\ f.st = "waiting"
  /\ cs.ret # NoRet
  /\ call' = [call EXCEPT ![c] =
       [cs EXCEPT !.stack = Pop(@), !.ret = Returned(kind, v),
                  !.log = (@ \o ServerResponseTagging(cs, f, cs.ret))
                            \o <<After(f, v)>>]]
  /\ UNCHANGED <<kind, interceptors>>

\* lines 98-108: span lookup and request tagging.
SizeTaggingClientRequest(c) ==
  LET cs == call[c]
      f == Top(cs)
  IN
  /\ kind = "client"
  /\ cs.pc = "run"
  /\ cs.stack # <<>>
  /\ f.ic.beh = "tag"
  /\ f.st = "entered"
  /\ call' = [call EXCEPT ![c] =
       [cs EXCEPT !.stack[Len(cs.stack)].st = "tagged",
                  !.log = @ \o ClientRequestTagging(cs, f)]]
  /\ UNCHANGED <<kind, interceptors>>

\* line 109: err := invoker(ctx, method, req, reply, cc, opts...)  -- the call
SizeTaggingClientInvoker(c) ==
  LET cs == call[c]
      f == Top(cs)
      a == f.args
      waiting == [cs EXCEPT !.stack[Len(cs.stack)].st = "waiting",
                            !.ret = NoRet]
  IN
  /\ kind = "client"
  /\ cs.pc = "run"
  /\ cs.stack # <<>>
  /\ f.ic.beh = "tag"
  /\ f.st = "tagged"
  /\ call' = [call EXCEPT ![c] =
       Enter(waiting, ClientApply(cs, f.next, a.ctx, a.method, a.req,
                                  a.reply, a.cc, a.opts))]
  /\ UNCHANGED <<kind, interceptors>>

\* lines 109-122: invoker has returned; response tagging and return.
SizeTaggingClientResponse(c) ==
  LET cs == call[c]
      f == Top(cs)
      v == ClientTaggingResult(cs.ret)
  IN
  /\ kind = "client"
  /\ cs.pc = "run"
  /\ cs.stack # <<>>
  /\ f.ic.beh = "tag"
  /\ f.st = "waiting"
  /\ cs.ret # NoRet
  /\ call' = [call EXCEPT ![c] =
       [cs EXCEPT !.stack = Pop(@), !.ret = Returned(kind, v),
                  !.log = (@ \o ClientResponseTagging(cs, f, cs.ret))
                            \o <<After(f, v)>>]]
  /\ UNCHANGED <<kind, interceptors>>

(* ---------------------------------------------------------------------- *)
(* Specifications                                                          *)
(* ---------------------------------------------------------------------- *)
Step(c, reqs) ==
  \/ \E r \in reqs, h \in Handlers : ServerInvoke(c, r, h)
  \/ ServerLoop(c)
  \/ ServerCall(c)
  \/ ServerReturn(c)
  \/ \E r \in reqs, h \in Handlers : ClientInvoke(c, r, h)
  \/ ClientLoop(c)
  \/ ClientCall(c)
  \/ ClientReturn(c)
  \/ Proceed(c)
  \/ ShortCircuit(c)
  \/ Resume(c)
  \/ \E o \in Outcomes : Terminal(c, o)

\* One call at a time through a chain of any of the interceptors.
Next ==
  \/ ChainUnaryServerInterceptors(SeqsUpTo(Pool, MaxChain))
  \/ ChainUnaryClientInterceptors(SeqsUpTo(Pool, MaxChain))
  \/ Step(1, Requests)

Spec == Init /\ [][Next]_vars

\* Several calls of one built chain, their steps interleaved.
NextCalls ==
  \/ ChainUnaryServerInterceptors(DistinctSeqsUpTo(SmallPool, MaxConcChain))
  \/ ChainUnaryClientInterceptors(DistinctSeqsUpTo(SmallPool, MaxConcChain))
  \/ \E c \in Calls : Step(c, {RequestOf(c)})

SpecCalls == Init /\ [][NextCalls]_vars

\* One call through the size-tagging interceptor, alone or wrapped around one
\* other interceptor.
SizeChains ==
  { <<SizeTagging>> }
  \cup { <<SizeTagging, ic>> :
           ic \in { Interceptor("A", "pass"), Interceptor("S", "short"),
                    Interceptor("F", "fail") } }

NextSize ==
  \/ ChainUnaryServerInterceptors(SizeChains)
  \/ ChainUnaryClientInterceptors(SizeChains)
  \/ \E r \in ServerSizeRequests, h \in Handlers : ServerInvoke(1, r, h)
  \/ ServerLoop(1)
  \/ ServerCall(1)
  \/ ServerReturn(1)
  \/ \E r \in ClientSizeRequests, h \in Handlers : ClientInvoke(1, r, h)
  \/ ClientLoop(1)
  \/ ClientCall(1)
  \/ ClientReturn(1)
  \/ Proceed(1)
  \/ ShortCircuit(1)
  \/ Resume(1)
  \/ \E o \in Outcomes : Terminal(1, o)
  \/ SizeTaggingServerRequest(1)
  \/ SizeTaggingServerHandler(1)
  \/ SizeTaggingServerResponse(1)
  \/ SizeTaggingClientRequest(1)
  \/ SizeTaggingClientInvoker(1)
  \/ SizeTaggingClientResponse(1)

SpecSize == Init /\ [][NextSize]_vars

\* One call through interceptors that replace what they hand on.
ForwardPool ==
  { Interceptor("A", "pass"), Interceptor("W", "swap"),
    Interceptor("X", "replace"), Interceptor("S", "short") }

NextForward ==
  \/ ChainUnaryServerInterceptors(SeqsUpTo(ForwardPool, MaxChain))
  \/ ChainUnaryClientInterceptors(SeqsUpTo(ForwardPool, MaxChain))
  \/ Step(1, Requests)

SpecForward == Init /\ [][NextForward]_vars

\* One call through a chain in which at most one interceptor calls its
\* continuation more than once.
RepeatPool ==
  { Interceptor("A", "pass"), Interceptor("B", "pass"),
    Interceptor("S", "short") }
  \cup { Repeater(m) : m \in 2 .. MaxRepeat }

RepeatChains ==
  { q \in SeqsUpTo(RepeatPool, MaxChain) :
      Cardinality({ j \in 1 .. Len(q) : q[j].beh = "repeat" }) <= 1 }

NextRepeat ==
  \/ ChainUnaryServerInterceptors(RepeatChains)
  \/ ChainUnaryClientInterceptors(RepeatChains)
  \/ Step(1, {RequestOf(1)})
  \/ Repeat(1)
  \/ RepeatReturn(1)

SpecRepeat == Init /\ [][NextRepeat]_vars

(* ---------------------------------------------------------------------- *)
(* Reading a call's log                                                    *)
(* ---------------------------------------------------------------------- *)
IsPrefix(p, q) == Len(p) <= Len(q) /\ SubSeq(q, 1, Len(p)) = p

\* The observed order: who did what.
Events(log) == [j \in 1 .. Len(log) |-> <<log[j].ev, log[j].who>>]

\* The entries of one kind, in order.
Only(log, ev) == SelectSeq(log, LAMBDA e : e.ev = ev)

CallsNext(ic) ==
  ic.beh \in {"pass", "fail", "swap", "replace", "repeat", "tag"}
PassesResult(ic) == ic.beh \in {"pass", "swap", "replace", "repeat", "tag"}

Built == kind # "none"
N == Len(interceptors)

\* The layers that return without calling their continuation.
Shorts == { k \in 1 .. N : ~CallsNext(interceptors[k]) }

\* The innermost layer a call gets into (1-based; Go index k - 1).
Reach == IF Shorts = {} THEN N
         ELSE CHOOSE k \in Shorts : \A j \in Shorts : k <= j

\* Stages entered in order, the terminal if nothing stopped short of it, and
\* the same stages left in reverse.
Onion(h) ==
  [j \in 1 .. Reach |-> <<"before", interceptors[j].name>>]
  \o (IF Shorts = {} THEN << <<"terminal", h>> >> ELSE <<>>)
  \o [j \in 1 .. Reach |-> <<"after", interceptors[Reach + 1 - j].name>>]

\* The response the caller of the composed interceptor ends up with: the
\* returned one (server), or the content of the reply slot it passed (client).
Response(c) ==
  IF kind = "server" THEN call[c].result.resp
  ELSE IF \E w \in call[c].written : w[1] = call[c].args.reply
         THEN (CHOOSE w \in call[c].written : w[1] = call[c].args.reply)[2]
         ELSE Nil

\* The terminal's entry of a call that reached it.
TerminalEntry(c) == Only(call[c].log, "terminal")[1]

Started(c) == call[c].pc \in {"run", "done"}
Done(c) == call[c].pc = "done"

(* ---------------------------------------------------------------------- *)
(* C1  Onion ordering                                                      *)
(* ---------------------------------------------------------------------- *)
\* C1: in a chain whose interceptors all call their continuation once, the
\* events of a call are, in order, I0-before ... I(N-1)-before, the terminal,
\* I(N-1)-after ... I0-after; a call under way has logged a prefix of that.
C1_OnionOrdering ==
  \A c \in Calls :
    (Built /\ Shorts = {} /\ call[c].pc # "idle") =>
      /\ IsPrefix(Events(call[c].log), Onion(call[c].handler.h))
      /\ Done(c) => Events(call[c].log) = Onion(call[c].handler.h)

C1_Witness ==
  /\ Done(1)
  /\ N = 3
  /\ Shorts = {}
  /\ <<interceptors[1].name, interceptors[2].name, interceptors[3].name>>
       = <<"A", "B", "C">>
  /\ Len(call[1].log) = 7

(* ---------------------------------------------------------------------- *)
(* C2  Short-circuit                                                       *)
(* ---------------------------------------------------------------------- *)
\* C2: when the interceptor at layer k returns without calling its
\* continuation, no deeper layer and no terminal is ever entered in that
\* call, the layers above k unwind in reverse order, and if those layers pass
\* results through the composed interceptor returns what layer k produced.
C2_ShortCircuit ==
  \A c \in Calls :
    (Built /\ Shorts # {} /\ call[c].pc # "idle") =>
      /\ Len(call[c].stack) <= Reach
      /\ \A d \in 1 .. Len(call[c].stack) :
            call[c].stack[d].ic = interceptors[d]
      /\ Only(call[c].log, "terminal") = <<>>
      /\ IsPrefix(Events(call[c].log), Onion(call[c].handler.h))
      /\ Done(c) =>
           /\ Events(call[c].log) = Onion(call[c].handler.h)
           /\ (\A j \in 1 .. Reach - 1 : PassesResult(interceptors[j])) =>
                /\ call[c].result = OwnResponse(kind, interceptors[Reach].name)
                /\ call[c].result = call[c].log[Reach + 1].ret
                /\ Response(c) = <<"resp", interceptors[Reach].name>>

C2_Witness ==
  /\ Done(1)
  /\ N = 3
  /\ Reach = 2
  /\ interceptors[2].beh = "short"
  /\ PassesResult(interceptors[1])
  /\ Len(call[1].log) = 4

(* ---------------------------------------------------------------------- *)
(* C3  Empty-chain identity                                                *)
(* ---------------------------------------------------------------------- *)
\* What the terminal gets when it is called directly with the call's
\* arguments.
DirectArgs(c) ==
  IF kind = "server"
    THEN HandlerArgs(call[c].args.ctx, call[c].args.req)
    ELSE call[c].args

\* C3: the interceptor composed from no interceptors calls the terminal it
\* was given exactly once, with the call's own arguments, and returns the
\* terminal's response and error unchanged.
C3_EmptyChainIdentity ==
  \A c \in Calls :
    (Built /\ N = 0 /\ call[c].pc # "idle") =>
      /\ call[c].closures = <<>>
      /\ Len(call[c].log) <= 1
      /\ \A j \in 1 .. Len(call[c].log) :
           /\ call[c].log[j].ev = "terminal"
           /\ call[c].log[j].who = call[c].handler.h
           /\ call[c].log[j].args = DirectArgs(c)
      /\ \A d \in 1 .. Len(call[c].stack) :
           /\ call[c].stack[d].ic = Interceptor(call[c].handler.h, "terminal")
           /\ call[c].stack[d].args = DirectArgs(c)
      /\ Done(c) =>
           /\ Len(call[c].log) = 1
           /\ call[c].result = call[c].log[1].ret
           /\ call[c].result.err = Nil =>
                Response(c) = <<"resp", call[c].handler.h>>

C3_Witness ==
  /\ Done(1)
  /\ N = 0
  /\ call[1].handler.h = "H2"
  /\ call[1].result.err # Nil
  /\ Len(call[1].log) = 1

(* ---------------------------------------------------------------------- *)
(* C4  Result propagation                                                  *)
(* ---------------------------------------------------------------------- *)
Last(q) == q[Len(q)]

\* C4: the composed interceptor returns exactly what the outermost stage
\* returned; when every interceptor calls its continuation and returns its
\* result, that is the terminal's result, so a terminal returning (R, nil)
\* makes the call yield (R, nil).
C4_ResultPropagation ==
  \A c \in Calls :
    (Built /\ Done(c)) =>
      /\ call[c].result = Last(call[c].log).ret
      /\ N > 0 => /\ Last(call[c].log).ev = "after"
                  /\ Last(call[c].log).who = interceptors[1].name
      /\ (\A j \in 1 .. N : PassesResult(interceptors[j])) =>
           /\ call[c].result = TerminalEntry(c).ret
           /\ TerminalEntry(c).ret.err = Nil =>
                /\ call[c].result.err = Nil
                /\ Response(c) = <<"resp", call[c].handler.h>>

C4_Witness ==
  /\ Done(1)
  /\ kind = "server"
  /\ N = 3
  /\ \A j \in 1 .. N : PassesResult(interceptors[j])
  /\ call[1].result = Value(<<"resp", "H1">>, Nil)

(* ---------------------------------------------------------------------- *)
(* C5  Upstream failure propagation                                        *)
(* ---------------------------------------------------------------------- *)
BehOf(name) == (CHOOSE ic \in Pool : ic.name = name).beh

\* The layers that return a value of their own.
Owners == { k \in 1 .. N : ~PassesResult(interceptors[k]) }

\* The value produced by the stage nothing above passes over: the outermost
\* interceptor that returns a value of its own, else the terminal.
Produced(c) ==
  IF Owners = {} THEN TerminalEntry(c).ret
  ELSE LET k == CHOOSE k \in Owners : \A j \in Owners : k <= j
       IN  IF interceptors[k].beh = "fail"
             THEN OwnError(kind, interceptors[k].name)
             ELSE OwnResponse(kind, interceptors[k].name)

\* C5: an interceptor that returns its continuation's result gets from the
\* chain exactly what the stage below returned, and the caller of the
\* composed interceptor gets the error (or nil) of the stage that produced
\* the result: the chaining logic never swallows or replaces an error.
C5_FailurePropagation ==
  \A c \in Calls :
    (Built /\ call[c].pc # "idle") =>
      /\ \A j \in 2 .. Len(call[c].log) :
           (call[c].log[j].ev = "after"
              /\ BehOf(call[c].log[j].who) \in {"pass", "swap"})
             => call[c].log[j].ret = call[c].log[j - 1].ret
      /\ Done(c) => call[c].result.err = Produced(c).err

C5_Witness ==
  /\ Done(1)
  /\ kind = "client"
  /\ N = 3
  /\ Owners = {}
  /\ call[1].result.err = <<"err", "H2">>

(* ---------------------------------------------------------------------- *)
(* C6  No reordering, no dropping                                          *)
(* ---------------------------------------------------------------------- *)
\* The continuation layer d (1-based) is handed: the closure of layer d + 1,
\* or the terminal for the last layer.  The fold allocates the closure of
\* layer d as its (N + 1 - d)-th closure.
NextOfLayer(c, d) ==
  IF d = N THEN call[c].handler ELSE ClosureRef(N - d)

\* C6: the fold binds, per iteration, its own interceptor and continuation:
\* the closure of layer d holds interceptors[d] and leads to layer d + 1 (the
\* terminal for the last layer); a running layer d is interceptors[d]; and in
\* a call where every interceptor calls its continuation once, each one is
\* entered and left exactly once, in the order of the sequence.
C6_NoReorderNoDrop ==
  \A c \in Calls :
    (Built /\ call[c].pc # "idle") =>
      LET cs == call[c]
          made == Len(cs.closures)
      IN
      /\ cs.pc = "loop" => made = N - 1 - cs.i
      /\ Started(c) => made = N
      /\ \A k \in 1 .. made :
           /\ cs.closures[k].interceptor = interceptors[N + 1 - k]
           /\ cs.closures[k].next = NextOfLayer(c, N + 1 - k)
      /\ cs.chained = IF made = 0 THEN cs.handler ELSE ClosureRef(made)
      /\ \A d \in 1 .. Len(cs.stack) :
           IF d <= N
             THEN /\ cs.stack[d].ic = interceptors[d]
                  /\ cs.stack[d].next = NextOfLayer(c, d)
             ELSE cs.stack[d].ic = Interceptor(cs.handler.h, "terminal")
      /\ (Done(c) /\ Shorts = {}) =>
           /\ Len(Only(cs.log, "before")) = N
           /\ Len(Only(cs.log, "after")) = N
           /\ Len(Only(cs.log, "terminal")) = 1
           /\ \A d \in 1 .. N :
                /\ Only(cs.log, "before")[d].who = interceptors[d].name
                /\ Only(cs.log, "before")[d].next = NextOfLayer(c, d)

C6_Witness ==
  /\ Done(1)
  /\ kind = "client"
  /\ N = 3
  /\ Shorts = {}
  /\ <<interceptors[1].name, interceptors[2].name, interceptors[3].name>>
       = <<"C", "A", "B">>

(* ---------------------------------------------------------------------- *)
(* C7  The terminal is the one supplied with the call                      *)
(* ---------------------------------------------------------------------- *)
\* C7: whatever other calls the built chain serves, the only terminal a call
\* leads to, enters or logs is the handler/invoker passed in that call; a
\* call whose interceptors all call their continuation reaches it once.
C7_TerminalAtCallTime ==
  \A c \in Calls :
    (Built /\ call[c].pc # "idle") =>
      LET cs == call[c] IN
      /\ cs.chained.t = "handler" => cs.chained = cs.handler
      /\ \A k \in 1 .. Len(cs.closures) :
           cs.closures[k].next.t = "handler" => cs.closures[k].next = cs.handler
      /\ \A d \in 1 .. Len(cs.stack) :
           cs.stack[d].ic.beh = "terminal" => cs.stack[d].ic.name = cs.handler.h
      /\ \A j \in 1 .. Len(cs.log) :
           cs.log[j].ev = "terminal" => cs.log[j].who = cs.handler.h
      /\ (Done(c) /\ Shorts = {}) => Len(Only(cs.log, "terminal")) = 1

C7_Witness ==
  /\ Done(1) /\ Done(2)
  /\ N = 2
  /\ Shorts = {}
  /\ call[1].handler.h = "H1" /\ TerminalEntry(1).who = "H1"
  /\ call[2].handler.h = "H2" /\ TerminalEntry(2).who = "H2"

(* ---------------------------------------------------------------------- *)
(* C8  Call metadata at every layer                                        *)
(* ---------------------------------------------------------------------- *)
\* The client call's metadata: method name, connection handle, call options.
Meta(a) == <<a.method, a.cc, a.opts>>

\* What layer j (1-based) hands to its continuation, given what it received.
PassedBy(c, j) ==
  Passed([ic |-> interceptors[j], args |-> Only(call[c].log, "before")[j].args])

\* C8 as stated: every interceptor of a call receives the metadata the
\* composed interceptor was invoked with, in the server and in the client
\* chain.
C8_SameMetadataEveryLayer ==
  \A c \in Calls :
    (Built /\ call[c].pc # "idle") =>
      \A j \in 1 .. Len(Only(call[c].log, "before")) :
        LET got == Only(call[c].log, "before")[j].args IN
        IF kind = "server" THEN got.info = call[c].args.info
                           ELSE Meta(got) = Meta(call[c].args)

\* C8 amended: in the server chain every interceptor receives the info of
\* the call.  In the client chain the outermost interceptor receives the
\* call's method, connection and options, and each further layer (and the
\* invoker) receives what the layer before it passed to its continuation; so
\* they are the call's at every layer below which no interceptor replaced
\* them.  The chain itself never changes them.
C8_MetadataPerLayer ==
  \A c \in Calls :
    (Built /\ call[c].pc # "idle") =>
      LET befores == Only(call[c].log, "before") IN
      /\ \A j \in 1 .. Len(befores) :
           IF kind = "server"
             THEN befores[j].args.info = call[c].args.info
             ELSE /\ Meta(befores[j].args) =
                       IF j = 1 THEN Meta(call[c].args)
                                ELSE Meta(PassedBy(c, j - 1))
                  /\ (\A k \in 1 .. j - 1 : interceptors[k].beh # "swap")
                       => Meta(befores[j].args) = Meta(call[c].args)
      /\ (kind = "client" /\ Only(call[c].log, "terminal") # <<>>) =>
           Meta(TerminalEntry(c).args) =
             IF N = 0 THEN Meta(call[c].args) ELSE Meta(PassedBy(c, N))

C8_Witness ==
  /\ Done(1)
  /\ kind = "client"
  /\ N = 3
  /\ interceptors[2].beh = "swap"
  /\ Len(Only(call[1].log, "before")) = 3
  /\ Meta(Only(call[1].log, "before")[3].args) # Meta(call[1].args)

(* ---------------------------------------------------------------------- *)
(* C9  The built chain is immutable and reusable                           *)
(* ---------------------------------------------------------------------- *)
Names(q) == [j \in 1 .. Len(q) |-> q[j].name]

\* Who a call entered, in order.
Entered(c) ==
  [j \in 1 .. Len(Only(call[c].log, "before")) |->
     Only(call[c].log, "before")[j].who]

\* The interceptors a call has wrapped, outermost first.
Wrapped(c) ==
  [d \in 1 .. Len(call[c].closures) |->
     call[c].closures[Len(call[c].closures) + 1 - d].interceptor]

\* C9: once built, no step of any call changes the captured sequence, and
\* every call -- whatever calls came before or run beside it -- wraps and runs
\* exactly that sequence.
C9_ChainImmutable ==
  /\ [][Built => (interceptors' = interceptors /\ kind' = kind)]_vars
  /\ [](\A c \in Calls :
          (Built /\ Started(c)) =>
            /\ Wrapped(c) = interceptors
            /\ IsPrefix(Entered(c),
                        Names(SubSeq(interceptors, 1, Reach)))
            /\ Done(c) => Entered(c)
                            = Names(SubSeq(interceptors, 1, Reach)))

C9_Witness ==
  /\ Done(1) /\ Done(2)
  /\ kind = "server"
  /\ N = 2
  /\ Shorts = {}
  /\ Entered(1) = Names(interceptors)
  /\ Entered(2) = Names(interceptors)

(* ---------------------------------------------------------------------- *)
(* C10  Concurrent invocation                                              *)
(* ---------------------------------------------------------------------- *)
\* What an interceptor of call c receives when nothing replaced arguments.
OwnArgs(c) == call[c].args

\* C10: with the steps of several calls interleaved, a step of one call
\* leaves the state of every other call alone, and each call on its own
\* observes the onion order, hands its own ctx/req/info to every stage,
\* reaches only its own terminal and returns that terminal's result.
C10_ConcurrentCalls ==
  /\ [][\E c \in Calls : \A d \in Calls \ {c} : call'[d] = call[d]]_vars
  /\ [](\A c \in Calls :
          (Built /\ call[c].pc # "idle") =>
            LET cs == call[c] IN
            /\ IsPrefix(Events(cs.log), Onion(cs.handler.h))
            /\ \A j \in 1 .. Len(cs.log) :
                 /\ cs.log[j].ev # "terminal" => cs.log[j].args = OwnArgs(c)
                 /\ cs.log[j].ev = "terminal" =>
                      /\ cs.log[j].who = cs.handler.h
                      /\ cs.log[j].args = DirectArgs(c)
            /\ \A d \in 1 .. Len(cs.stack) :
                 cs.stack[d].args \in {OwnArgs(c), DirectArgs(c)}
            /\ Done(c) =>
                 /\ Events(cs.log) = Onion(cs.handler.h)
                 /\ Shorts = {} =>
                      /\ cs.result = TerminalEntry(c).ret
                      /\ cs.result \in {OwnResponse(kind, cs.handler.h),
                                        OwnError(kind, cs.handler.h)}
                      /\ cs.result.err = Nil =>
                           Response(c) = <<"resp", cs.handler.h>>)

C10_Witness ==
  /\ call[1].pc = "run" /\ call[2].pc = "run"
  /\ N = 2
  /\ Len(call[1].stack) = 3
  /\ Len(call[2].stack) = 1
  /\ call[1].handler # call[2].handler
  /\ Len(call[1].log) = 2 /\ Len(call[2].log) = 1

(* ---------------------------------------------------------------------- *)
(* Reading the log of a call through the size-tagging interceptor (which   *)
(* is the outermost stage of the chain in SpecSize)                        *)
(* ---------------------------------------------------------------------- *)
Tagged(c) == Built /\ N >= 1 /\ interceptors[1] = SizeTagging /\ call[c].pc # "idle"

\* The context the call was made with carries a span.
WithSpan(c) == call[c].args.ctx[2].span

\* The interceptor is past its lines 40-50 (98-108).
RequestStepDone(c) ==
  /\ Started(c)
  /\ call[c].stack # <<>> => call[c].stack[1].st # "entered"

\* The SetTag calls with one key, in order.
TagsOf(c, key) ==
  SelectSeq(call[c].log, LAMBDA e : e.ev = "tag" /\ e.who = key)

\* The log lines of one level about one payload.
LinesOf(c, level, key) ==
  SelectSeq(call[c].log, LAMBDA e : e.ev = level /\ e.who = key)

Values(q) == [j \in 1 .. Len(q) |-> q[j].val]

\* The entries of the stage the size-tagging interceptor calls.
NextStageEntries(c) ==
  IF N = 1 THEN Only(call[c].log, "terminal")
  ELSE SelectSeq(call[c].log,
                 LAMBDA e : e.ev = "before" /\ e.who = interceptors[2].name)

\* What that stage returned: the last return logged before the interceptor's
\* own.
Returns(c) ==
  SelectSeq(call[c].log, LAMBDA e : e.ev \in {"after", "terminal"})
NextStageReturn(c) == Returns(c)[Len(Returns(c)) - 1].ret

\* Who produced the response of a call that did not fail.
Responder(c) ==
  IF N = 2 /\ interceptors[2].beh = "short" THEN interceptors[2].name
  ELSE call[c].handler.h

\* Whether the response object of the call supports size computation.
ResponseSizable(c) ==
  IF kind = "server" THEN Responder(c) \in ProtoResponders
  ELSE call[c].args.reply[2].reply

(* ---------------------------------------------------------------------- *)
(* C11  Sizes tagged                                                       *)
(* ---------------------------------------------------------------------- *)
\* C11: with a span in the context, a request and a response that support
\* size computation and no error from the next stage, the span gets exactly
\* grpc.request.size = size of the request and grpc.response.size = size of
\* the response, in the server and in the client variant.
C11_SizesTagged ==
  \A c \in Calls :
    (Tagged(c) /\ Done(c)
       /\ WithSpan(c)
       /\ call[c].args.req[2].proto
       /\ ResponseSizable(c)
       /\ NextStageReturn(c).err = Nil) =>
      /\ Values(TagsOf(c, RequestKey)) = << IntVal(call[c].args.req[2].size) >>
      /\ Values(TagsOf(c, ResponseKey)) = << IntVal(ResponseSize(Responder(c))) >>

C11_Witness ==
  /\ Tagged(1) /\ Done(1)
  /\ kind = "client"
  /\ Values(TagsOf(1, RequestKey)) = << IntVal(42) >>
  /\ Values(TagsOf(1, ResponseKey)) = << IntVal(17) >>
  /\ call[1].result.err = Nil

(* ---------------------------------------------------------------------- *)
(* C12  No response tag on error                                           *)
(* ---------------------------------------------------------------------- *)
\* C12: when the next stage returns an error, the span gets the request-size
\* tag (if there is a span) and no grpc.response.size tag and no response log
\* line of any kind, and the interceptor returns exactly that error.
C12_NoResponseTagOnError ==
  \A c \in Calls :
    (Tagged(c) /\ Done(c) /\ NextStageReturn(c).err # Nil) =>
      /\ TagsOf(c, ResponseKey) = <<>>
      /\ LinesOf(c, "info", ResponseKey) = <<>>
      /\ LinesOf(c, "warn", ResponseKey) = <<>>
      /\ WithSpan(c) => Len(TagsOf(c, RequestKey)) = 1
      /\ call[c].result = NextStageReturn(c)
      /\ call[c].result.err = Produced(c).err

C12_Witness ==
  /\ Tagged(1) /\ Done(1)
  /\ kind = "server"
  /\ N = 1
  /\ WithSpan(1)
  /\ call[1].result.err = <<"err", "H1">>
  /\ Values(TagsOf(1, RequestKey)) = << IntVal(42) >>

(* ---------------------------------------------------------------------- *)
(* C13  No span                                                            *)
(* ---------------------------------------------------------------------- *)
\* C13: with no span in the context nothing is ever tagged or logged, and
\* the next stage is still run exactly once and its result returned as is.
C13_NoSpanNoTagging ==
  \A c \in Calls :
    (Tagged(c) /\ ~WithSpan(c)) =>
      /\ \A j \in 1 .. Len(call[c].log) :
           call[c].log[j].ev \notin {"tag", "info", "warn"}
      /\ Done(c) =>
           /\ Len(NextStageEntries(c)) = 1
           /\ call[c].result = NextStageReturn(c)

C13_Witness ==
  /\ Tagged(1) /\ Done(1)
  /\ kind = "client"
  /\ ~WithSpan(1)
  /\ call[1].args.req[2].proto
  /\ call[1].result.err = Nil
  /\ Len(Only(call[1].log, "terminal")) = 1

(* ---------------------------------------------------------------------- *)
(* C14  Payloads without a size                                            *)
(* ---------------------------------------------------------------------- *)
\* The tag value for "size unavailable": -1 in the server variant, the string
\* "unknown" in the client variant.
Sentinel == IF kind = "server" THEN IntVal(0 - 1) ELSE StrVal("unknown")

\* C14: with a span, a request that does not support size computation gets
\* grpc.request.size set to the variant's sentinel and a warning (no info
\* line), and the next stage is still called with the original request; a
\* response without a size, when there is no error, gets grpc.response.size
\* set to the sentinel and a warning.
C14_SentinelForUnsizable ==
  \A c \in Calls :
    (Tagged(c) /\ WithSpan(c)) =>
      /\ (~call[c].args.req[2].proto /\ RequestStepDone(c)) =>
           /\ Values(TagsOf(c, RequestKey)) = << Sentinel >>
           /\ Len(LinesOf(c, "warn", RequestKey)) = 1
           /\ LinesOf(c, "info", RequestKey) = <<>>
           /\ \A j \in 1 .. Len(NextStageEntries(c)) :
                NextStageEntries(c)[j].args.req = call[c].args.req
           /\ Done(c) => Len(NextStageEntries(c)) = 1
      /\ (Done(c) /\ NextStageReturn(c).err = Nil /\ ~ResponseSizable(c)) =>
           /\ Values(TagsOf(c, ResponseKey)) = << Sentinel >>
           /\ Len(LinesOf(c, "warn", ResponseKey)) = 1
           /\ LinesOf(c, "info", ResponseKey) = <<>>

C14_Witness ==
  /\ Tagged(1) /\ Done(1)
  /\ kind = "client"
  /\ WithSpan(1)
  /\ ~call[1].args.req[2].proto
  /\ ~ResponseSizable(1)
  /\ call[1].result.err = Nil
  /\ Values(TagsOf(1, RequestKey)) = << StrVal("unknown") >>
  /\ Values(TagsOf(1, ResponseKey)) = << StrVal("unknown") >>

(* ---------------------------------------------------------------------- *)
(* C15  Size tagging is transparent                                        *)
(* ---------------------------------------------------------------------- *)
\* C15: whatever the span, the payloads and the outcome, the size-tagging
\* interceptor calls the next stage at most once while it runs and exactly
\* once per call, with the context and request it received (client: also the
\* method, reply object, connection and options); it returns what the next
\* stage returned, so the caller gets the value the rest of the chain
\* produced and an error only if that stage returned one.
C15_Transparent ==
  \A c \in Calls :
    Tagged(c) =>
      /\ Len(NextStageEntries(c)) <= 1
      /\ \A j \in 1 .. Len(NextStageEntries(c)) :
           LET got == NextStageEntries(c)[j].args IN
           /\ got.ctx = call[c].args.ctx
           /\ got.req = call[c].args.req
           /\ kind = "client" => got = call[c].args
      /\ Done(c) =>
           /\ Len(NextStageEntries(c)) = 1
           /\ call[c].result = NextStageReturn(c)
           /\ call[c].result = Produced(c)
           /\ Last(call[c].log).ev = "after" /\ Last(call[c].log).who = "T"
           /\ Last(call[c].log).ret = NextStageReturn(c)

C15_Witness ==
  /\ Tagged(1) /\ Done(1)
  /\ kind = "server"
  /\ WithSpan(1)
  /\ ~call[1].args.req[2].proto
  /\ ~ResponseSizable(1)
  /\ Values(TagsOf(1, ResponseKey)) = << IntVal(0 - 1) >>
  /\ call[1].result = Value(<<"resp", "H2">>, Nil)

(* ---------------------------------------------------------------------- *)
(* C16  Order of tagging around the next stage                             *)
(* ---------------------------------------------------------------------- *)
\* The positions in the log where a stage below the size-tagging interceptor
\* is entered, and where anything below it is entered or returns.
EntriesBelow(c) ==
  { j \in 1 .. Len(call[c].log) :
      /\ call[c].log[j].ev \in {"before", "terminal"}
      /\ call[c].log[j].who # SizeTagging.name }
ActivityBelow(c) ==
  { j \in 1 .. Len(call[c].log) :
      /\ call[c].log[j].ev \in {"before", "after", "terminal"}
      /\ call[c].log[j].who # SizeTagging.name }
ReturnsBelow(c) ==
  { j \in 1 .. Len(call[c].log) :
      /\ call[c].log[j].ev \in {"after", "terminal"}
      /\ call[c].log[j].who # SizeTagging.name }
TagPositions(c, key) ==
  { j \in 1 .. Len(call[c].log) :
      call[c].log[j].ev = "tag" /\ call[c].log[j].who = key }

\* C16: in a call with a span, grpc.request.size is written before the next
\* stage is invoked (when it is invoked the tag is already there),
\* grpc.response.size is written only after the next stage has returned and
\* everything below has finished, and each key is written at most once.
C16_TagOrder ==
  \A c \in Calls :
    (Tagged(c) /\ WithSpan(c)) =>
      /\ Cardinality(TagPositions(c, RequestKey)) <= 1
      /\ Cardinality(TagPositions(c, ResponseKey)) <= 1
      /\ \A j \in EntriesBelow(c) :
           \E i \in TagPositions(c, RequestKey) : i < j
      /\ \A i \in TagPositions(c, RequestKey) :
           \A j \in ActivityBelow(c) : i < j
      /\ \A i \in TagPositions(c, ResponseKey) :
           /\ ReturnsBelow(c) # {}
           /\ \A j \in ActivityBelow(c) : j < i
           /\ \A k \in TagPositions(c, RequestKey) : k < i

C16_Witness ==
  /\ Tagged(1) /\ Done(1)
  /\ kind = "server"
  /\ N = 2
  /\ WithSpan(1)
  /\ Events(call[1].log) =
       << <<"before", "T">>, <<"tag", RequestKey>>, <<"info", RequestKey>>,
          <<"before", "A">>, <<"terminal", "H1">>, <<"after", "A">>,
          <<"tag", ResponseKey>>, <<"info", ResponseKey>>,
          <<"after", "T">> >>

(* ---------------------------------------------------------------------- *)
(* C17  Server and client chains compose alike                             *)
(* ---------------------------------------------------------------------- *)
\* The events a call through the stages q and the terminal h goes through,
\* from the behaviours alone: nothing here depends on which builder made the
\* chain.
RECURSIVE Trace(_, _)
Trace(q, h) ==
  IF q = <<>> THEN << <<"terminal", h>> >>
  ELSE << <<"before", Head(q).name>> >>
       \o (IF CallsNext(Head(q)) THEN Trace(Tail(q), h) ELSE <<>>)
       \o << <<"after", Head(q).name>> >>

\* The error the stages q return on top of a terminal that returned err.
RECURSIVE ErrorOutcome(_, _)
ErrorOutcome(q, err) ==
  IF q = <<>> THEN err
  ELSE IF Head(q).beh = "short" THEN Nil
  ELSE IF Head(q).beh = "fail" THEN <<"err", Head(q).name>>
  ELSE ErrorOutcome(Tail(q), err)

\* The error the terminal returned, if the call got to it.
TerminalError(c) ==
  IF Only(call[c].log, "terminal") = <<>> THEN Nil ELSE TerminalEntry(c).ret.err

\* C17: for one sequence of interceptor behaviours and one terminal
\* behaviour, a chain built by either builder goes through the same entry and
\* exit events -- those the behaviours alone determine -- and every stage,
\* and the composed interceptor, returns the same error.
C17_ServerClientEquivalent ==
  \A c \in Calls :
    (Built /\ Started(c)) =>
      LET cs == call[c] IN
      /\ IsPrefix(Events(cs.log), Trace(interceptors, cs.handler.h))
      /\ \A j \in 1 .. Len(cs.log) :
           cs.log[j].ev = "after" =>
             \E d \in 1 .. N :
               /\ interceptors[d].name = cs.log[j].who
               /\ cs.log[j].ret.err =
                    ErrorOutcome(SubSeq(interceptors, d, N), TerminalError(c))
      /\ Done(c) =>
           /\ Events(cs.log) = Trace(interceptors, cs.handler.h)
           /\ cs.result.err = ErrorOutcome(interceptors, TerminalError(c))

C17_Witness ==
  /\ Done(1)
  /\ kind = "client"
  /\ N = 3
  /\ <<interceptors[1].beh, interceptors[2].beh, interceptors[3].beh>>
       = <<"pass", "fail", "pass">>
  /\ TerminalError(1) = <<"err", "H1">>
  /\ call[1].result.err = <<"err", interceptors[2].name>>

(* ---------------------------------------------------------------------- *)
(* C18  Arguments are forwarded from layer to layer                        *)
(* ---------------------------------------------------------------------- *)
\* What a stage is called with, apart from the server's info.
Carried(a) == <<a.ctx, a.req, a.method, a.reply, a.cc, a.opts>>

\* The layers that replace what they hand on.
Replacers == { k \in 1 .. N : interceptors[k].beh \in {"swap", "replace"} }

\* C18: the outermost layer receives what the composed interceptor was
\* called with; layer j + 1 -- the terminal after the last layer -- receives
\* the context and request (client: also method, reply slot, connection and
\* options) layer j passed to its continuation, so below a layer that
\* replaced the context and request every stage sees the replacement until
\* another layer replaces them again; the server's info is the outer call's
\* at every layer.
C18_ArgumentForwarding ==
  \A c \in Calls :
    (Built /\ Started(c)) =>
      LET befores == Only(call[c].log, "before")
          terminals == Only(call[c].log, "terminal")
      IN
      /\ \A j \in 1 .. Len(befores) :
           /\ Carried(befores[j].args) =
                IF j = 1 THEN Carried(call[c].args)
                         ELSE Carried(PassedBy(c, j - 1))
           /\ kind = "server" => befores[j].args.info = call[c].args.info
           /\ \A k \in Replacers :
                (k < j /\ \A m \in Replacers : ~(k < m /\ m < j)) =>
                  /\ befores[j].args.ctx = <<"ctx", interceptors[k].name>>
                  /\ befores[j].args.req = <<"req", interceptors[k].name>>
      /\ \A t \in 1 .. Len(terminals) :
           /\ Carried(terminals[t].args) =
                IF N = 0 THEN Carried(call[c].args)
                         ELSE Carried(PassedBy(c, N))
           /\ \A k \in Replacers :
                (\A m \in Replacers : m <= k) =>
                  /\ terminals[t].args.ctx = <<"ctx", interceptors[k].name>>
                  /\ terminals[t].args.req = <<"req", interceptors[k].name>>

C18_Witness ==
  /\ Done(1)
  /\ kind = "client"
  /\ N = 3
  /\ <<interceptors[1].name, interceptors[2].name, interceptors[3].name>>
       = <<"W", "X", "A">>
  /\ Len(Only(call[1].log, "before")) = 3
  /\ Only(call[1].log, "before")[2].args.reply = call[1].args.reply
  /\ Only(call[1].log, "before")[2].args.ctx = <<"ctx", "W">>
  /\ Only(call[1].log, "before")[3].args.reply = <<"reply", "X">>
  /\ TerminalEntry(1).args.reply = <<"reply", "X">>
  /\ TerminalEntry(1).args.ctx = <<"ctx", "X">>

(* ---------------------------------------------------------------------- *)
(* C19  A continuation called more than once                               *)
(* ---------------------------------------------------------------------- *)
\* The layers that call their continuation more than once, and how often the
\* interceptor says it does (read off its name).
Repeaters == { k \in 1 .. N : interceptors[k].beh = "repeat" }
Asked(ic) ==
  CHOOSE m \in 2 .. MaxRepeat : ic.name = "R" \o ToString(m)

\* How often layer d (1-based) was entered, and the terminal run, in a call.
\* The continuation a layer holds tells the layers apart.
Runs(c, d) ==
  Len(SelectSeq(call[c].log,
        LAMBDA e : e.ev = "before" /\ e.next = NextOfLayer(c, d)
                     /\ e.who = interceptors[d].name))
TerminalRuns(c) == Len(Only(call[c].log, "terminal"))

\* q repeated m times.
RECURSIVE Rep(_, _)
Rep(q, m) == IF m = 0 THEN <<>> ELSE q \o Rep(q, m - 1)

\* The events of a call: every pass through the layers inside a repeating
\* interceptor is in onion order.
RECURSIVE RepeatTrace(_, _)
RepeatTrace(q, h) ==
  IF q = <<>> THEN << <<"terminal", h>> >>
  ELSE << <<"before", Head(q).name>> >>
       \o (IF Head(q).beh = "repeat"
             THEN Rep(RepeatTrace(Tail(q), h), Asked(Head(q)))
           ELSE IF CallsNext(Head(q)) THEN RepeatTrace(Tail(q), h)
           ELSE <<>>)
       \o << <<"after", Head(q).name>> >>

\* C19 as stated: when the interceptor at layer k calls its continuation m
\* times, every layer after k and the terminal run m times and every layer
\* before k runs once -- whatever the layers after k do.
C19_RepeatedContinuation ==
  \A c \in Calls :
    (Built /\ Done(c)) =>
      \A k \in Repeaters :
        Runs(c, k) >= 1 =>
          /\ \A d \in k + 1 .. N : Runs(c, d) = Asked(interceptors[k])
          /\ TerminalRuns(c) = Asked(interceptors[k])
          /\ \A d \in 1 .. k - 1 : Runs(c, d) = 1

\* C19 amended: the chain puts no guard on how often a continuation is
\* called.  When the interceptor at layer k calls its continuation m times
\* and every other interceptor calls its own once, every layer after k and
\* the terminal run m times, in onion order each time, and the layers before
\* k run once.  When a layer s after k returns without calling its
\* continuation, the layers between k and s, and s, run m times, and the
\* layers after s and the terminal do not run.
C19_RepeatedWhenOthersCallOnce ==
  \A c \in Calls :
    (Built /\ Started(c)) =>
      /\ IsPrefix(Events(call[c].log),
                  RepeatTrace(interceptors, call[c].handler.h))
      /\ Done(c) =>
           /\ Events(call[c].log)
                = RepeatTrace(interceptors, call[c].handler.h)
           /\ \A k \in Repeaters :
                Runs(c, k) >= 1 =>
                  LET m == Asked(interceptors[k])
                      below == { s \in Shorts : s > k }
                  IN
                  /\ Runs(c, k) = 1
                  /\ \A d \in 1 .. k - 1 : Runs(c, d) = 1
                  /\ below = {} =>
                       /\ \A d \in k + 1 .. N : Runs(c, d) = m
                       /\ TerminalRuns(c) = m
                  /\ \A s \in below :
                       (\A t \in below : s <= t) =>
                         /\ \A d \in k + 1 .. s : Runs(c, d) = m
                         /\ \A d \in s + 1 .. N : Runs(c, d) = 0
                         /\ TerminalRuns(c) = 0

C19_Witness ==
  /\ Done(1)
  /\ kind = "server"
  /\ N = 3
  /\ interceptors[1] = Interceptor("A", "pass")
  /\ interceptors[2] = Repeater(MaxRepeat)
  /\ interceptors[3] = Interceptor("B", "pass")
  /\ Runs(1, 1) = 1
  /\ Runs(1, 3) = MaxRepeat
  /\ TerminalRuns(1) = MaxRepeat

====
